---- MODULE Spec2Model ----
(***************************************************************************)
(* Model of the jsonnet language server: the diagnostics pipeline of       *)
(* src/src/utils.rs (location_to_position, parse) and the session loop,    *)
(* request router and document store of src/src/main.rs (App).             *)
(*                                                                         *)
(* Texts are sequences of one-byte characters.  The grammar is an external *)
(* collaborator (jrsonnet_parser); it is represented by a small            *)
(* deterministic object grammar that reports, like the real one, the byte  *)
(* offset of the first token it cannot accept together with the 1-based    *)
(* line and column of that offset.                                         *)
(***************************************************************************)
EXTENDS Integers, Sequences, FiniteSets, TLC

VARIABLES overflow_checks, files, msg, sent, state, published, handshake,
          io_threads, exit_code, opened, input, pc, position, output

vars ==
    <<overflow_checks, files, msg, sent, state, published, handshake,
      io_threads, exit_code, opened, input, pc, position, output>>

\* Longest text enumerated for the pure functions of utils.rs.
MaxLen == 4

\* Longest content-change sequence carried by one document-change notification.
MaxChanges == 2

\* A u32 of lsp_types::Position is held as two 16-bit limbs, hi * 2^16 + lo,
\* so that its arithmetic keeps the width of the program's: modulo 2^32.
Limb == 65536

Chars == {"{", "}", "a", ",", " ", "\n"}

Whitespace == {" ", "\n"}

TextsUpTo(n) == UNION {[1..k -> Chars] : k \in 0..n}

\* The literal of tests::parse_simple_jsonnet: an object of three fields, each
\* followed by a comma, one field per indented line.
test_code_ok ==
    <<"\n", " ", "{", "\n", " ", "a", ",", "\n", " ", "a", ",", "\n",
      " ", "a", ",", "\n", " ", "}", "\n">>

\* The literal of tests::parse_simple_jsonnet_parse_error: the same object
\* with the comma after the second field missing.
test_code_err ==
    <<"\n", " ", "{", "\n", " ", "a", ",", "\n", " ", "a", "\n",
      " ", "a", ",", "\n", " ", "}", "\n">>

(***************************************************************************)
(* The external grammar.                                                   *)
(***************************************************************************)

\* peg::str::LineCol of byte offset pos in text: 1-based line and column.
RECURSIVE CountNewlines(_, _)
CountNewlines(text, pos) ==
    IF pos = 0 THEN 0
    ELSE CountNewlines(text, pos - 1) + (IF text[pos] = "\n" THEN 1 ELSE 0)

RECURSIVE CharsSinceNewline(_, _)
CharsSinceNewline(text, pos) ==
    IF pos = 0 \/ text[pos] = "\n" THEN 0
    ELSE CharsSinceNewline(text, pos - 1) + 1

position_repr(text, pos) ==
    [line |-> CountNewlines(text, pos) + 1,
     column |-> CharsSinceNewline(text, pos) + 1,
     offset |-> pos]

\* One step of the grammar: the state after token c, "error" when c cannot follow.
GrammarStep(st, c) ==
    CASE st = "start" -> IF c = "{" THEN "open" ELSE "error"
      [] st \in {"open", "comma"} ->
            IF c = "a" THEN "field" ELSE IF c = "}" THEN "end" ELSE "error"
      [] st = "field" ->
            IF c = "," THEN "comma" ELSE IF c = "}" THEN "end" ELSE "error"
      [] OTHER -> "error"

RECURSIVE Scan(_, _, _)
Scan(text, i, st) ==
    IF i > Len(text)
    THEN IF st = "end"
         THEN [ok |-> TRUE, location |-> position_repr(text, 0)]
         ELSE [ok |-> FALSE, location |-> position_repr(text, Len(text))]
    ELSE IF text[i] \in Whitespace
    THEN Scan(text, i + 1, st)
    ELSE IF GrammarStep(st, text[i]) = "error"
    THEN [ok |-> FALSE, location |-> position_repr(text, i - 1)]
    ELSE Scan(text, i + 1, GrammarStep(st, text[i]))

\* jrsonnet_parser::parse: Ok(tree) (ok = TRUE; the tree is not looked at by
\* this program) or Err(ParseError) carrying the location of the failure.
jrsonnet_parse(text) == Scan(text, 1, "start")

(***************************************************************************)
(* utils.rs                                                                *)
(***************************************************************************)

\* code.split('\n'): the lines of the text, the newlines removed.
RECURSIVE SplitFrom(_, _, _)
SplitFrom(text, i, line) ==
    IF i > Len(text) THEN <<line>>
    ELSE IF text[i] = "\n" THEN <<line>> \o SplitFrom(text, i + 1, <<>>)
    ELSE SplitFrom(text, i + 1, Append(line, text[i]))

split(text) == SplitFrom(text, 1, <<>>)

\* The for loop of location_to_position: the offset left after the walk.
RECURSIVE WalkLines(_, _, _)
WalkLines(lines, k, offset) ==
    IF k > Len(lines) THEN offset
    ELSE IF offset <= Len(lines[k]) THEN offset
    ELSE WalkLines(lines, k + 1, offset - (Len(lines[k]) + 1))

\* n as u32, for a usize n below 2^31.
AsU32(n) == [hi |-> (n \div Limb) % Limb, lo |-> n % Limb]

\* a - b on u32, for b below 2^16: a panic when overflow checks are compiled
\* in (the debug profile), wrap-around modulo 2^32 otherwise (release).
U32Sub(checks, a, b) ==
    LET borrow == IF a.lo < b THEN 1 ELSE 0
    IN  IF a.hi - borrow < 0 /\ checks
        THEN [panic |-> TRUE, value |-> AsU32(0)]
        ELSE [panic |-> FALSE,
              value |-> [hi |-> (a.hi - borrow) % Limb,
                         lo |-> (a.lo - b) % Limb]]

\* a + b on u32, likewise.
U32Add(checks, a, b) ==
    LET carry == IF a.lo + b >= Limb THEN 1 ELSE 0
    IN  IF a.hi + carry >= Limb /\ checks
        THEN [panic |-> TRUE, value |-> AsU32(0)]
        ELSE [panic |-> FALSE,
              value |-> [hi |-> (a.hi + carry) % Limb,
                         lo |-> (a.lo + b) % Limb]]

location_to_position(checks, text, line_col) ==
    LET offset == WalkLines(split(text), 1, line_col.offset)
        line == U32Sub(checks, AsU32(line_col.line), 1)
        character == U32Sub(checks, AsU32(offset), 1)
    IN  [panic |-> line.panic \/ character.panic,
         line |-> line.value,
         character |-> character.value]

\* The outcomes of jrsonnet_evaluator::evaluate, which parse discards.
EvalResults == {"Ok", "Err"}

\* What utils::parse gave: the diagnostics it returned and the outcome of the
\* evaluation pass it ran ("NotRun" on a rejected text), or its panic.
Returned(diagnostics, evaluation) ==
    [panic |-> FALSE, diagnostics |-> diagnostics, evaluation |-> evaluation]

Panicked == [panic |-> TRUE, diagnostics |-> <<>>, evaluation |-> "NotRun"]

Diagnostic(position_start, position_end, err) ==
    [range |-> [start |-> position_start, end |-> position_end],
     severity |-> "Error",
     message |-> err.location]

\* A slip in the Err arm below: the diagnostic is built and never pushed.
parse_err_not_pushed(checks, text, err) ==
    LET start == location_to_position(checks, text, err.location)
        endch == U32Add(checks, start.character, 1)
    IN  IF start.panic \/ endch.panic
        THEN Panicked
        ELSE Returned(<<>>, "NotRun")

parse_err(checks, text, err) ==
    LET start == location_to_position(checks, text, err.location)
        endch == U32Add(checks, start.character, 1)
    IN  IF start.panic \/ endch.panic
        THEN Panicked
        ELSE Returned(<<Diagnostic(
                          [line |-> start.line, character |-> start.character],
                          [line |-> start.line, character |-> endch.value],
                          err)>>,
                      "NotRun")

\* A slip in parse below: the failure of the evaluation pass is reported.
parse_reporting_evaluation(checks, text, eval) ==
    LET parsed == jrsonnet_parse(text)
    IN  IF parsed.ok
        THEN IF eval = "Err"
             THEN Returned(<<Diagnostic(
                               [line |-> AsU32(0), character |-> AsU32(0)],
                               [line |-> AsU32(0), character |-> AsU32(1)],
                               parsed)>>,
                           eval)
             ELSE Returned(<<>>, eval)
        ELSE parse_err(checks, text, parsed)

\* utils::parse: the diagnostics of a text, or the panic of its arithmetic.
\* eval is the outcome of the evaluation pass on an accepted text.
parse(checks, text, eval) ==
    LET parsed == jrsonnet_parse(text)
    IN  IF parsed.ok
        THEN Returned(<<>>, eval)
        ELSE parse_err(checks, text, parsed)

(***************************************************************************)
(* main.rs: messages                                                       *)
(***************************************************************************)

Uris == {"file:///a", "file:///b"}

RequestIds == {1, 2}

\* Documents the editor sends: accepted; rejected at offset 0; rejected in the
\* middle of a line; rejected at the first byte of the second line.
Docs ==
    {<<"{", "a", "}">>,
     <<>>,
     <<"{", "a", "a", "}">>,
     <<"{", "a", "\n", "a", "}">>}

SeqsUpTo(S, n) == UNION {[1..k -> S] : k \in 0..n}

\* Texts of the entries of a change list that a later entry supersedes: one
\* the parser accepts and one it rejects at offset 0.
Superseded == {<<"{", "a", "}">>, <<>>}

\* The change lists of a didChange: none, or up to n entries of which the last
\* is any document.
ChangeLists(n) ==
    {<<>>} \cup {Append(earlier, t) :
                    earlier \in SeqsUpTo(Superseded, n - 1), t \in Docs}

DidOpenMethod == "textDocument/didOpen"

DidChangeMethod == "textDocument/didChange"

FormattingMethod == "textDocument/formatting"

ShutdownMethod == "shutdown"

ExitMethod == "exit"

\* Request methods the capabilities declare and the router does not implement.
OtherRequestMethods == {"textDocument/completion", "textDocument/rename"}

\* Notification methods with no handler.
OtherNotificationMethods == {"initialized"}

\* The document-close notification, of the same family: it has no handler.
DidCloseMethod == "textDocument/didClose"

\* A parameter payload.  shape names the type the JSON deserializes to;
\* "malformed" deserializes to none of the types this program asks for.
Params(shape, uri, text, content_changes) ==
    [shape |-> shape, uri |-> uri, text |-> text,
     content_changes |-> content_changes]

NoUri == "none"

Malformed == Params("malformed", NoUri, <<>>, <<>>)

NoParams == Params("none", NoUri, <<>>, <<>>)

Request(id, method, params) ==
    [kind |-> "Request", id |-> id, method |-> method, params |-> params]

Notification(method, params) ==
    [kind |-> "Notification", id |-> 0, method |-> method, params |-> params]

InboundResponse(id) ==
    [kind |-> "Response", id |-> id, method |-> "", params |-> NoParams]

NoMessage ==
    [kind |-> "None", id |-> 0, method |-> "", params |-> NoParams]

Requests ==
    {Request(id, FormattingMethod, Params("formatting", u, <<>>, <<>>)) :
        id \in RequestIds, u \in Uris}
    \cup {Request(id, FormattingMethod, Malformed) : id \in RequestIds}
    \cup {Request(id, m, NoParams) :
            id \in RequestIds, m \in OtherRequestMethods \cup {ShutdownMethod}}

Notifications ==
    {Notification(DidOpenMethod, Params("didOpen", u, t, <<>>)) :
        u \in Uris, t \in Docs}
    \cup {Notification(DidChangeMethod, Params("didChange", u, <<>>, cs)) :
            u \in Uris, cs \in ChangeLists(MaxChanges)}
    \cup {Notification(m, Malformed) : m \in {DidOpenMethod, DidChangeMethod}}
    \cup {Notification(DidCloseMethod, Params("didClose", u, <<>>, <<>>)) :
            u \in Uris}
    \cup {Notification(m, NoParams) :
            m \in OtherNotificationMethods \cup {ExitMethod}}

Responses == {InboundResponse(id) : id \in RequestIds}

Messages == Requests \cup Notifications \cup Responses

\* Outbound messages.
ResponseOk(id, result) ==
    [kind |-> "Response", id |-> id, result |-> result, error |-> <<>>]

ResponseErr(id, error_code, message) ==
    [kind |-> "Response", id |-> id, result |-> <<>>,
     error |-> <<[code |-> error_code, message |-> message]>>]

PublishDiagnostics(uri, diagnostics) ==
    [kind |-> "Notification", method |-> "textDocument/publishDiagnostics",
     params |-> [uri |-> uri, diagnostics |-> diagnostics, version |-> "None"]]

(***************************************************************************)
(* main.rs: App                                                            *)
(***************************************************************************)

\* HashMap::insert on files: the entry of uri is created or replaced.
\* A slip in insert below: the new entry replaces the whole store.
insert_alone(fs, uri, entry) == [u \in {uri} |-> entry]

insert(fs, uri, entry) ==
    [u \in DOMAIN fs \cup {uri} |-> IF u = uri THEN entry ELSE fs[u]]

\* The tuple (Result<LocExpr, ParseError>, String) stored for a document.
Entry(parsed, text) == [result |-> parsed, code |-> text]

\* What a handler did: whether it panicked, the store it leaves and the
\* messages it put on the outbound channel.
Handled(fs, out) == [panic |-> FALSE, files |-> fs, sent |-> out]

HandlerPanicked(fs) == [panic |-> TRUE, files |-> fs, sent |-> <<>>]

\* App::send_diagnostics: utils::parse of the text, then one notification.
send_diagnostics(checks, uri, text, eval) ==
    LET diagnostics == parse(checks, text, eval)
    IN  IF diagnostics.panic
        THEN [panic |-> TRUE, sent |-> <<>>]
        ELSE [panic |-> FALSE,
              sent |-> <<PublishDiagnostics(uri, diagnostics.diagnostics)>>]

\* A slip in the body below: an existing entry keeps its outcome and only
\* its text is replaced.
update_keeping_outcome(checks, fs, uri, text, eval) ==
    LET parsed == IF uri \in DOMAIN fs THEN fs[uri].result
                  ELSE jrsonnet_parse(text)
        published_ == send_diagnostics(checks, uri, text, eval)
    IN  IF published_.panic
        THEN HandlerPanicked(fs)
        ELSE Handled(insert(fs, uri, Entry(parsed, text)), published_.sent)

\* A slip in the body below: a uri that has an entry is rejected.
update_rejecting_existing(checks, fs, uri, text, eval) ==
    LET parsed == jrsonnet_parse(text)
        published_ == send_diagnostics(checks, uri, text, eval)
    IN  IF uri \in DOMAIN fs
        THEN Handled(fs, <<>>)
        ELSE IF published_.panic
        THEN HandlerPanicked(fs)
        ELSE Handled(insert(fs, uri, Entry(parsed, text)), published_.sent)

\* The body shared by the two arms of handle_notification: parse the text,
\* publish its diagnostics, then store (parsed, text) under uri.
update(checks, fs, uri, text, eval) ==
    LET parsed == jrsonnet_parse(text)
        published_ == send_diagnostics(checks, uri, text, eval)
    IN  IF published_.panic
        THEN HandlerPanicked(fs)
        ELSE Handled(insert(fs, uri, Entry(parsed, text)), published_.sent)

\* content_changes.into_iter().last()
last(content_changes) == content_changes[Len(content_changes)]

\* A slip in handle_notification below: the deserialized payload is
\* unwrapped instead of propagated with `?`.
handle_notification_unwrapping(checks, fs, req, eval) ==
    CASE req.method = DidOpenMethod ->
            IF req.params.shape # "didOpen"
            THEN HandlerPanicked(fs)
            ELSE update(checks, fs, req.params.uri, req.params.text, eval)
      [] req.method = DidChangeMethod ->
            IF req.params.shape # "didChange"
            THEN HandlerPanicked(fs)
            ELSE IF req.params.content_changes = <<>>
            THEN Handled(fs, <<>>)
            ELSE update(checks, fs, req.params.uri,
                        last(req.params.content_changes), eval)
      [] OTHER -> Handled(fs, <<>>)

\* A slip in handle_notification below: an empty change list is taken as a
\* change to the empty text.
handle_notification_default_text(checks, fs, req, eval) ==
    CASE req.method = DidOpenMethod ->
            IF req.params.shape # "didOpen"
            THEN Handled(fs, <<>>)
            ELSE update(checks, fs, req.params.uri, req.params.text, eval)
      [] req.method = DidChangeMethod ->
            IF req.params.shape # "didChange"
            THEN Handled(fs, <<>>)
            ELSE IF req.params.content_changes = <<>>
            THEN update(checks, fs, req.params.uri, <<>>, eval)
            ELSE update(checks, fs, req.params.uri,
                        last(req.params.content_changes), eval)
      [] OTHER -> Handled(fs, <<>>)

\* App::handle_notification.  A payload that does not deserialize makes the
\* handler return Err, which the loop drops.
handle_notification(checks, fs, req, eval) ==
    CASE req.method = DidOpenMethod ->
            IF req.params.shape # "didOpen"
            THEN Handled(fs, <<>>)
            ELSE update(checks, fs, req.params.uri, req.params.text, eval)
      [] req.method = DidChangeMethod ->
            IF req.params.shape # "didChange"
            THEN Handled(fs, <<>>)
            ELSE IF req.params.content_changes = <<>>
            THEN Handled(fs, <<>>)
            ELSE update(checks, fs, req.params.uri,
                        last(req.params.content_changes), eval)
      [] OTHER -> Handled(fs, <<>>)

\* The placeholder edit of the formatting capability.
TodoEdit ==
    [range |-> [start |-> [line |-> AsU32(0), character |-> AsU32(0)],
                end |-> [line |-> AsU32(0), character |-> AsU32(0)]],
     new_text |-> "TODO: test"]

\* A slip in changes below: the outcome stored for the document is not
\* looked at.
changes_for_any_entry(fs, uri) ==
    IF uri \in DOMAIN fs THEN <<TodoEdit>> ELSE <<>>

\* The edits answered to a formatting request for uri.
changes(fs, uri) ==
    IF uri \in DOMAIN fs
    THEN IF fs[uri].result.ok THEN <<TodoEdit>> ELSE <<>>
    ELSE <<>>

\* A slip in handle_request below: the fallback answers with the code of an
\* internal error instead of method-not-found.
handle_request_internal_error(fs, req) ==
    IF req.method = FormattingMethod
    THEN IF req.params.shape # "formatting"
         THEN HandlerPanicked(fs)
         ELSE Handled(fs, <<ResponseOk(req.id, changes(fs, req.params.uri))>>)
    ELSE Handled(fs, <<ResponseErr(req.id, "InternalError",
                                   <<"Unhandled method ", req.method>>)>>)

\* App::handle_request.  Request::extract returns the request back when the
\* method differs and unwraps the deserialized parameters when it matches:
\* a formatting payload that does not deserialize panics.
handle_request(fs, req) ==
    IF req.method = FormattingMethod
    THEN IF req.params.shape # "formatting"
         THEN HandlerPanicked(fs)
         ELSE Handled(fs, <<ResponseOk(req.id, changes(fs, req.params.uri))>>)
    ELSE Handled(fs, <<ResponseErr(req.id, "MethodNotFound",
                                   <<"Unhandled method ", req.method>>)>>)

(***************************************************************************)
(* The session loop, App::main: one action per iteration of the loop.      *)
(***************************************************************************)

Idle == Returned(<<>>, "NotRun")

NoPosition == [panic |-> FALSE, line |-> AsU32(0), character |-> AsU32(0)]

\* The diagnostics last published for each uri: none yet, or one sequence.
Publish(pub, out) ==
    [u \in Uris |->
        IF \E i \in 1..Len(out) :
              out[i].kind = "Notification" /\ out[i].params.uri = u
        THEN <<out[Len(out)].params.diagnostics>>
        ELSE pub[u]]

Init ==
    /\ overflow_checks \in BOOLEAN
    /\ files = <<>>
    /\ msg = NoMessage
    /\ sent = <<>>
    /\ state = "Running"
    /\ published = [u \in Uris |-> <<>>]
    /\ handshake = "none"
    /\ io_threads = "running"
    /\ exit_code = <<>>
    /\ opened = <<>>
    /\ input = <<>>
    /\ pc = "idle"
    /\ position = NoPosition
    /\ output = Idle

\* The observer's note of a handled document-open, one handled message
\* later: "none" right after the open, "next" after the message that follows
\* it, "afterwards" from then on.
Aged(note) ==
    IF note = <<>> THEN note
    ELSE <<[note[1] EXCEPT
              !.later = IF @ = "none" THEN "next" ELSE "afterwards"]>>

\* A panic unwinds the main thread and the process ends with the status of
\* a panic, 101.
Finish(m, done) ==
    /\ msg' = m
    /\ state' = IF done.panic THEN "Panicked" ELSE "Running"
    /\ exit_code' = IF done.panic THEN <<101>> ELSE exit_code
    /\ files' = done.files
    /\ sent' = done.sent
    /\ published' = Publish(published, done.sent)
    /\ opened' = Aged(opened)
    /\ UNCHANGED <<overflow_checks, handshake, io_threads,
                   input, pc, position, output>>

\* Message::Request(req), handle_shutdown answers Ok(false).
RecvRequest(req) ==
    /\ state = "Running"
    /\ req.method # ShutdownMethod
    /\ Finish(req, handle_request(files, req))

\* The exit notification, which completes the shutdown handshake.
IsExit(m) == m.kind = "Notification" /\ m.method = ExitMethod

\* What handle_shutdown may read after a shutdown request: the exit
\* notification, another notification, any request (a second shutdown
\* request among them), a response, or nothing within its timeout.
AfterShutdown ==
    Requests \cup Responses \cup {NoMessage}
    \cup {Notification(m, NoParams) :
            m \in OtherNotificationMethods \cup {ExitMethod}}
    \cup {Notification(DidCloseMethod, Params("didClose", u, <<>>, <<>>)) :
            u \in Uris}

\* A slip in the action below: the Err arm replies and does not break.
RecvShutdown_continuing(req, next) ==
    /\ state = "Running"
    /\ req.method = ShutdownMethod
    /\ msg' = req
    /\ state' = IF IsExit(next) THEN "Terminated" ELSE "Running"
    /\ handshake' = IF IsExit(next) THEN "accepted" ELSE "failed"
    /\ sent' =
         IF IsExit(next)
         THEN <<ResponseOk(req.id, <<>>)>>
         ELSE <<ResponseOk(req.id, <<>>),
                ResponseErr(req.id, "UnknownErrorCode",
                            <<"unexpected message during shutdown">>)>>
    /\ UNCHANGED <<overflow_checks, files, published, io_threads, exit_code,
                   opened, input, pc, position, output>>

\* A slip in the action below: the Err arm breaks without calling err.
RecvShutdown_silent(req, next) ==
    /\ state = "Running"
    /\ req.method = ShutdownMethod
    /\ msg' = req
    /\ state' = "Terminated"
    /\ handshake' = IF IsExit(next) THEN "accepted" ELSE "failed"
    /\ sent' = <<ResponseOk(req.id, <<>>)>>
    /\ UNCHANGED <<overflow_checks, files, published, io_threads, exit_code,
                   opened, input, pc, position, output>>

\* Message::Request(req) with req a shutdown request: handle_shutdown answers
\* it and waits for the next message, which is the exit notification
\* (Ok(true)) or anything else, a timeout included (Err).
RecvShutdown(req, next) ==
    /\ state = "Running"
    /\ req.method = ShutdownMethod
    /\ msg' = req
    /\ state' = "Terminated"
    /\ handshake' = IF IsExit(next) THEN "accepted" ELSE "failed"
    /\ sent' =
         IF IsExit(next)
         THEN <<ResponseOk(req.id, <<>>)>>
         ELSE <<ResponseOk(req.id, <<>>),
                ResponseErr(req.id, "UnknownErrorCode",
                            <<"unexpected message during shutdown">>)>>
    /\ UNCHANGED <<overflow_checks, files, published, io_threads, exit_code,
                   opened, input, pc, position, output>>

\* Message::Notification(notification)
RecvNotification(notification) ==
    /\ state = "Running"
    /\ \E eval \in EvalResults :
          Finish(notification,
                 handle_notification(overflow_checks, files, notification, eval))

\* A slip in the action below: a response is routed like a request.
RecvResponse_routed(response) ==
    /\ state = "Running"
    /\ Finish(response, handle_request(files, response))

\* Message::Response(_)
RecvResponse(response) ==
    /\ state = "Running"
    /\ Finish(response, Handled(files, <<>>))

\* recv() fails: the channel is closed and the loop ends.
ChannelClosed ==
    /\ state = "Running"
    /\ state' = "Terminated"
    /\ msg' = NoMessage
    /\ sent' = <<>>
    /\ UNCHANGED <<overflow_checks, files, published, handshake, io_threads,
                   exit_code, opened, input, pc, position, output>>

\* The loop has ended and App::main has returned: real_main joins the
\* transport's threads and main exits with 1 when the join failed, with 0
\* otherwise.
Exit(joined) ==
    /\ state = "Terminated"
    /\ state' = "Exited"
    /\ io_threads' = joined
    /\ exit_code' = IF joined = "Err" THEN <<1>> ELSE <<0>>
    /\ UNCHANGED <<overflow_checks, files, msg, sent, published, handshake,
                   opened, input, pc, position, output>>

Next ==
    \/ \E req \in Requests : RecvRequest(req)
    \/ \E req \in Requests, next \in AfterShutdown : RecvShutdown(req, next)
    \/ \E notification \in Notifications : RecvNotification(notification)
    \/ \E response \in Responses : RecvResponse(response)
    \/ ChannelClosed
    \/ \E joined \in {"Ok", "Err"} : Exit(joined)

Spec == Init /\ [][Next]_vars

(***************************************************************************)
(* The session loop with an observer that may note a document-open the     *)
(* loop has just handled: what was opened, the messages sent for it and    *)
(* the entry it left in the store.                                         *)
(***************************************************************************)

Record ==
    /\ opened = <<>>
    /\ state = "Running"
    /\ msg.kind = "Notification"
    /\ msg.method = DidOpenMethod
    /\ msg.params.shape = "didOpen"
    /\ opened' = <<[uri |-> msg.params.uri, text |-> msg.params.text,
                    sent |-> sent, entry |-> files[msg.params.uri],
                    later |-> "none"]>>
    /\ UNCHANGED <<overflow_checks, files, msg, sent, state, published,
                   handshake, io_threads, exit_code, input, pc, position,
                   output>>

NextReopen == Next \/ Record

SpecReopen == Init /\ [][NextReopen]_vars

(***************************************************************************)
(* utils::parse on its own: every text up to MaxLen and the two literals   *)
(* of the tests, under both build profiles.                                *)
(***************************************************************************)

Inputs == TextsUpTo(MaxLen) \cup {test_code_ok, test_code_err}

InitParse ==
    /\ overflow_checks \in BOOLEAN
    /\ files = <<>>
    /\ msg = NoMessage
    /\ sent = <<>>
    /\ state = "Running"
    /\ published = [u \in Uris |-> <<>>]
    /\ handshake = "none"
    /\ io_threads = "running"
    /\ exit_code = <<>>
    /\ opened = <<>>
    /\ input \in Inputs
    /\ pc = "call"
    /\ position = NoPosition
    /\ output = Idle

ParseCall ==
    /\ pc = "call"
    /\ \E eval \in EvalResults :
          output' = parse(overflow_checks, input, eval)
    /\ position' =
         IF jrsonnet_parse(input).ok
         THEN NoPosition
         ELSE location_to_position(overflow_checks, input,
                                   jrsonnet_parse(input).location)
    /\ pc' = "returned"
    /\ UNCHANGED <<overflow_checks, files, msg, sent, state, published,
                   handshake, io_threads, exit_code, opened, input>>

NextParse == ParseCall

SpecParse == InitParse /\ [][NextParse]_vars

(***************************************************************************)
(* Properties                                                              *)
(***************************************************************************)

\* A well-formed document-open notification.
IsOpen(m) ==
    /\ m.kind = "Notification"
    /\ m.method = DidOpenMethod
    /\ m.params.shape = "didOpen"

\* A well-formed document-change notification with at least one entry.
IsChange(m) ==
    /\ m.kind = "Notification"
    /\ m.method = DidChangeMethod
    /\ m.params.shape = "didChange"
    /\ m.params.content_changes # <<>>

\* The text such a notification applies.
AppliedText(m) ==
    IF IsOpen(m) THEN m.params.text
    ELSE m.params.content_changes[Len(m.params.content_changes)]

\* b = a + 1 as natural numbers, for two u32 values.
IsSucc(a, b) ==
    \/ a.lo + 1 < Limb /\ b = [hi |-> a.hi, lo |-> a.lo + 1]
    \/ a.lo + 1 = Limb /\ a.hi + 1 < Limb /\ b = [hi |-> a.hi + 1, lo |-> 0]

\* C1: every entry of the store pairs a text with the outcome of parsing that
\* very text, and the store is keyed by document identifier (one entry each).
StoreConsistent ==
    /\ DOMAIN files \subseteq Uris
    /\ \A u \in DOMAIN files :
          files[u] = Entry(jrsonnet_parse(files[u].code), files[u].code)

\* C1 witness: a change has just replaced an entry, the new text is rejected,
\* and both documents are in the store.
StoreConsistentWitness ==
    /\ state = "Running"
    /\ IsChange(msg)
    /\ DOMAIN files = Uris
    /\ ~files[msg.params.uri].result.ok
    /\ files[msg.params.uri].code = AppliedText(msg)

\* C2 as stated: once a document-change notification with n >= 1 entries has
\* been handled, the stored text of its identifier is the text of the last
\* entry and the diagnostics published are those of the last entry alone.
LastEntryWins ==
    IsChange(msg) =>
        /\ msg.params.uri \in DOMAIN files
        /\ files[msg.params.uri].code = AppliedText(msg)
        /\ \E eval \in EvalResults :
              LET d == parse(overflow_checks, AppliedText(msg), eval)
              IN  /\ ~d.panic
                  /\ sent = <<PublishDiagnostics(msg.params.uri, d.diagnostics)>>

\* C3 as stated: handling a well-formed open, or a change with at least one
\* entry, emits exactly one publish-diagnostics notification for the
\* identifier, carrying the diagnostics of the applied text, and the
\* diagnostics last published for it are those of the text now stored.
PublishOnUpdate ==
    (IsOpen(msg) \/ IsChange(msg)) =>
        \E eval \in EvalResults :
           LET d == parse(overflow_checks, AppliedText(msg), eval)
           IN  /\ ~d.panic
               /\ sent = <<PublishDiagnostics(msg.params.uri, d.diagnostics)>>
               /\ published[msg.params.uri] = <<d.diagnostics>>
               /\ msg.params.uri \in DOMAIN files
               /\ files[msg.params.uri].code = AppliedText(msg)

\* What does hold of the two statements above: they hold in every state in
\* which the loop is still running, that is unless the handler panicked.
LastEntryWinsWhileRunning == state = "Running" => LastEntryWins

PublishOnUpdateWhileRunning == state = "Running" => PublishOnUpdate

\* C4 as stated: on a rejected text utils::parse returns exactly one
\* diagnostic, of severity error, on one line and one character wide.
SingleDiagnosticOnError ==
    (pc = "returned" /\ ~jrsonnet_parse(input).ok) =>
        /\ ~output.panic
        /\ Len(output.diagnostics) = 1
        /\ output.diagnostics[1].severity = "Error"
        /\ output.diagnostics[1].range.end.line
             = output.diagnostics[1].range.start.line
        /\ IsSucc(output.diagnostics[1].range.start.character,
                  output.diagnostics[1].range.end.character)

\* C5: on an accepted text utils::parse returns no diagnostic, whether the
\* evaluation pass succeeded or failed.
NoDiagnosticOnSuccess ==
    (pc = "returned" /\ jrsonnet_parse(input).ok) =>
        /\ ~output.panic
        /\ output.diagnostics = <<>>

\* C5 witness: the text of tests::parse_simple_jsonnet was accepted, its
\* evaluation failed, and parse has returned.
NoDiagnosticOnSuccessWitness ==
    /\ pc = "returned"
    /\ input = test_code_ok
    /\ jrsonnet_parse(input).ok
    /\ output.evaluation = "Err"

\* The last token before index i that is not whitespace, "" when there is none.
RECURSIVE PrevToken(_, _)
PrevToken(text, i) ==
    IF i = 0 THEN ""
    ELSE IF text[i] \in Whitespace THEN PrevToken(text, i - 1)
    ELSE text[i]

\* The grammar rejects the text because a comma is missing between two
\* fields: the token it stops at is a field and so is the token before it.
MissingComma(text) ==
    LET parsed == jrsonnet_parse(text)
        offset == parsed.location.offset
    IN  /\ ~parsed.ok
        /\ offset < Len(text)
        /\ text[offset + 1] = "a"
        /\ PrevToken(text, offset) = "a"

PositionSaturates ==
    (/\ pc = "returned"
     /\ ~jrsonnet_parse(input).ok
     /\ WalkLines(split(input), 1, jrsonnet_parse(input).location.offset) = 0)
        => /\ ~position.panic
           /\ position.character = AsU32(0)

\* A well-formed formatting request.
IsFormatting(m) ==
    /\ m.kind = "Request"
    /\ m.method = FormattingMethod
    /\ m.params.shape = "formatting"

\* The store holds an entry for uri whose outcome is Parsed.
StoredParsed(uri) == uri \in DOMAIN files /\ files[uri].result.ok

\* C8: a formatting request is answered with exactly one response, a success
\* carrying the request's id; its edit list is non-empty iff the store holds a
\* Parsed outcome for the identifier, and is then the one placeholder edit at
\* (0,0)-(0,0).
FormattingAnswered ==
    IsFormatting(msg) =>
        /\ state = "Running"
        /\ Len(sent) = 1
        /\ sent[1].kind = "Response"
        /\ sent[1].id = msg.id
        /\ sent[1].error = <<>>
        /\ sent[1].result # <<>> <=> StoredParsed(msg.params.uri)
        /\ StoredParsed(msg.params.uri) =>
              /\ Len(sent[1].result) = 1
              /\ sent[1].result[1].range.start
                   = [line |-> AsU32(0), character |-> AsU32(0)]
              /\ sent[1].result[1].range.end
                   = [line |-> AsU32(0), character |-> AsU32(0)]
              /\ sent[1].result[1].new_text = "TODO: test"

\* C8 witness: formatting requests have been answered for a document stored
\* with a SyntaxError outcome while another is stored Parsed.
FormattingAnsweredWitness ==
    /\ IsFormatting(msg)
    /\ msg.params.uri \in DOMAIN files
    /\ ~StoredParsed(msg.params.uri)
    /\ \E u \in Uris : StoredParsed(u)
    /\ sent # <<>>

\* A request that is neither the shutdown request nor a formatting request.
IsUnknownRequest(m) ==
    /\ m.kind = "Request"
    /\ m.method \notin {FormattingMethod, ShutdownMethod}

\* C9: the step that handles a request of an unknown method sends exactly one
\* response, an error with the request's id, the code method-not-found and a
\* message containing the method name; it leaves the store unchanged and the
\* session running.
UnknownMethodAnswered ==
    [][IsUnknownRequest(msg') =>
          /\ files' = files
          /\ state' = "Running"
          /\ Len(sent') = 1
          /\ sent'[1].kind = "Response"
          /\ sent'[1].id = msg'.id
          /\ Len(sent'[1].error) = 1
          /\ sent'[1].error[1].code = "MethodNotFound"
          /\ \E i \in DOMAIN sent'[1].error[1].message :
                sent'[1].error[1].message[i] = msg'.method]_vars

\* C9 witness: a request of an unknown method has been answered while the
\* store holds documents.
UnknownMethodAnsweredWitness ==
    /\ IsUnknownRequest(msg)
    /\ DOMAIN files = Uris
    /\ state = "Running"
    /\ sent # <<>>

\* C10 as stated: a formatting request whose payload does not deserialize is
\* answered with an invalid-parameters error carrying its id, and the session
\* goes on.
MalformedFormattingAnswered ==
    (/\ msg.kind = "Request"
     /\ msg.method = FormattingMethod
     /\ msg.params.shape # "formatting")
        => /\ state = "Running"
           /\ Len(sent) = 1
           /\ sent[1].kind = "Response"
           /\ sent[1].id = msg.id
           /\ Len(sent[1].error) = 1
           /\ sent[1].error[1].code = "InvalidParams"

(***************************************************************************)
(* Shutdown and exit                                                       *)
(***************************************************************************)

\* The message the loop took last is a shutdown request.
ShutdownReceived == msg.kind = "Request" /\ msg.method = ShutdownMethod

\* C11: the step that receives a shutdown request leaves Running, whether the
\* handshake is accepted or fails, and from then on no step takes another
\* message: nothing more is sent, the store and the published diagnostics
\* stay as they are, and the session never runs again.
ShutdownTerminal ==
    [][/\ (msg'.kind = "Request" /\ msg'.method = ShutdownMethod)
          => /\ state' # "Running"
             /\ handshake' \in {"accepted", "failed"}
       /\ ShutdownReceived
          => /\ msg' = msg
             /\ sent' = sent
             /\ files' = files
             /\ published' = published]_vars

\* C11 witness: the process has ended after a shutdown request whose handshake
\* failed, with documents in the store.
ShutdownTerminalWitness ==
    /\ ShutdownReceived
    /\ handshake = "failed"
    /\ state = "Exited"
    /\ DOMAIN files = Uris

\* C12: after a handshake failure the loop has ended; the last message sent
\* is an error response with the id of the shutdown request being handled,
\* and the router's reply for that request (method not found) was not sent.
HandshakeFailureFatal ==
    handshake = "failed" =>
        /\ ShutdownReceived
        /\ state \in {"Terminated", "Exited"}
        /\ sent # <<>>
        /\ sent[Len(sent)].kind = "Response"
        /\ sent[Len(sent)].id = msg.id
        /\ Len(sent[Len(sent)].error) = 1
        /\ sent[Len(sent)].error[1].code = "UnknownErrorCode"
        /\ \A i \in 1..Len(sent) :
              /\ sent[i] \notin {handle_request(files, msg).sent[j] :
                                   j \in 1..Len(handle_request(files, msg).sent)}
              /\ sent[i].id = msg.id

\* C12 witness: the handshake failed on a shutdown request with id 2 and the
\* loop has ended.
HandshakeFailureFatalWitness ==
    /\ handshake = "failed"
    /\ ShutdownReceived
    /\ msg.id = 2
    /\ state = "Terminated"
    /\ files # <<>>

\* C13 as stated: the process exits with 1 after a handshake failure and
\* after a failure that escapes the loop, and with 0 after a handshake that
\* completed and a clean join of the transport's threads.
ExitCodes ==
    /\ (state = "Exited" /\ handshake = "failed") => exit_code = <<1>>
    /\ state = "Panicked" => exit_code = <<1>>
    /\ (state = "Exited" /\ handshake = "accepted" /\ io_threads = "Ok")
          => exit_code = <<0>>

(***************************************************************************)
(* Messages without effect                                                 *)
(***************************************************************************)

\* A notification of a method other than document-open and document-change,
\* or a response.
IsIgnored(m) ==
    \/ m.kind = "Notification" /\ m.method \notin {DidOpenMethod, DidChangeMethod}
    \/ m.kind = "Response"

\* C14: the step that takes a notification of another method, or a response,
\* leaves the store and the published diagnostics unchanged, sends nothing
\* and leaves the session running.
IgnoredLeaveNoTrace ==
    [][IsIgnored(msg') =>
          /\ files' = files
          /\ published' = published
          /\ sent' = <<>>
          /\ state' = "Running"]_vars

\* C14 witness: a response has been taken while the store holds documents and
\* diagnostics have been published.
IgnoredLeaveNoTraceWitness ==
    /\ msg.kind = "Response"
    /\ DOMAIN files = Uris
    /\ \E u \in Uris : published[u] # <<>> /\ published[u][1] # <<>>
    /\ state = "Running"
    /\ sent = <<>>

\* A document-open or document-change whose payload does not deserialize.
IsMalformedNotification(m) ==
    /\ m.kind = "Notification"
    /\ m.method \in {DidOpenMethod, DidChangeMethod}
    /\ m.params.shape = "malformed"

\* C15: the step that takes a malformed document-open or document-change
\* leaves every entry of the store as it was, publishes nothing, sends
\* nothing, and leaves the session running.
MalformedNotificationDropped ==
    [][IsMalformedNotification(msg') =>
          /\ files' = files
          /\ published' = published
          /\ sent' = <<>>
          /\ state' = "Running"]_vars

\* C15 witness: a malformed document-change has been taken while the store
\* holds a document with a SyntaxError outcome.
MalformedNotificationDroppedWitness ==
    /\ IsMalformedNotification(msg)
    /\ msg.method = DidChangeMethod
    /\ \E u \in DOMAIN files : ~files[u].result.ok
    /\ state = "Running"
    /\ sent = <<>>

\* C16: a document-open handled after the noted one, for the same uri with
\* the same text, is handled to its end, sends what the noted one sent and
\* leaves the entry the noted one left.
ReopenIdempotent ==
    (/\ opened # <<>>
     /\ opened[1].later # "none"
     /\ IsOpen(msg)
     /\ msg.params.uri = opened[1].uri
     /\ msg.params.text = opened[1].text)
        => /\ state = "Running"
           /\ sent = opened[1].sent
           /\ msg.params.uri \in DOMAIN files
           /\ files[msg.params.uri] = opened[1].entry

\* C16 witness: a rejected text was opened, other messages were handled, and
\* the same text has been opened again for the same uri.
ReopenIdempotentWitness ==
    /\ opened # <<>>
    /\ opened[1].later = "afterwards"
    /\ IsOpen(msg)
    /\ msg.params.uri = opened[1].uri
    /\ msg.params.text = opened[1].text
    /\ ~opened[1].entry.result.ok
    /\ sent # <<>>

\* C17 as stated, at the error locations that are not the first byte of a
\* line: the start of the diagnostic is line l - 1 and character c - 1, the
\* zero-based coordinate of the error offset.
StartIsCoordinate ==
    (/\ pc = "returned"
     /\ ~jrsonnet_parse(input).ok
     /\ jrsonnet_parse(input).location.column > 1)
        => /\ ~output.panic
           /\ Len(output.diagnostics) = 1
           /\ output.diagnostics[1].range.start
                = [line |-> AsU32(jrsonnet_parse(input).location.line - 1),
                   character |->
                       AsU32(jrsonnet_parse(input).location.column - 1)]

\* A document-close notification.
IsClose(m) == m.kind = "Notification" /\ m.method = DidCloseMethod

\* C18: no step removes an entry from the store, and the step that takes a
\* document-close leaves the store as it was, so that a formatting request
\* for the closed uri is answered as it would have been before the close.
StoreNeverShrinks ==
    [][/\ \A u \in DOMAIN files : u \in DOMAIN files'
       /\ IsClose(msg') =>
             /\ files' = files
             /\ state' = "Running"
             /\ \A id \in RequestIds :
                   LET req == Request(id, FormattingMethod,
                                      Params("formatting", msg'.params.uri,
                                             <<>>, <<>>))
                   IN  handle_request(files', req) = handle_request(files, req)
      ]_vars

\* C18 witness: a document-close has been taken for a uri stored with a Parsed
\* outcome, while the other uri is stored too.
StoreNeverShrinksWitness ==
    /\ IsClose(msg)
    /\ StoredParsed(msg.params.uri)
    /\ DOMAIN files = Uris
    /\ state = "Running"

\* The responses sent for the request taken last.
ResponsesFor(m) ==
    {i \in 1..Len(sent) : sent[i].kind = "Response" /\ sent[i].id = m.id}

\* C19 as stated: at most one response is sent for a request, the shutdown
\* request included, and a request the router has handled to its end has
\* exactly one.
OneResponsePerRequest ==
    msg.kind = "Request" =>
        /\ Cardinality(ResponsesFor(msg)) <= 1
        /\ (msg.method # ShutdownMethod /\ state = "Running")
              => Cardinality(ResponsesFor(msg)) = 1

\* A well-formed document-change with no content change.
IsEmptyChange(m) ==
    /\ m.kind = "Notification"
    /\ m.method = DidChangeMethod
    /\ m.params.shape = "didChange"
    /\ m.params.content_changes = <<>>

\* C20: the step that takes a document-change with an empty change list
\* leaves the store as it was, creating no entry and touching none, and
\* publishes nothing.
EmptyChangeNoOp ==
    [][IsEmptyChange(msg') =>
          /\ files' = files
          /\ published' = published
          /\ sent' = <<>>]_vars

\* C20 witness: an empty document-change has been taken for a uri that was
\* never opened while the other uri is stored.
EmptyChangeNoOpWitness ==
    /\ IsEmptyChange(msg)
    /\ msg.params.uri \notin DOMAIN files
    /\ files # <<>>
    /\ state = "Running"

====
